---- MODULE Spec2Model ----
\* Model of the HTTP/2 adaptor connection (package http2to1, src/2to1/conn.go):
\* H2AdaptorConn buffers the bytes written to it, peeks the buffered frames for
\* a complete header block, decodes :authority and :scheme, dials the upstream,
\* flushes preface + buffer and then passes Writes through.  Reads wait for the
\* h2ConnCreated channel to be closed.
EXTENDS Integers, Sequences, FiniteSets, TLC

(***************************************************************************)
(* Bounds of the model                                                     *)
(***************************************************************************)
\* number of upstream dial attempts one behaviour may make
MaxDials == 2
\* number of Writes whose bytes equal the connection preface verbatim
MaxPrefaceWrites == 1
\* number of Read calls one behaviour may make
MaxReads == 1
\* number of Close calls one behaviour may make
MaxCloses == 1
\* number of Writes of an upstream connection that may return an error
MaxWriteErrs == 1
\* a Write carries at most this many bytes, or all the bytes that are left
MaxChunk == 2
\* number of TryPrefetch calls one behaviour may make
MaxPrefetchCalls == 3
\* number of resources ExtractResourcesInHead may return for one document
MaxResources == 2

(***************************************************************************)
(* Bytes and byte strings                                                  *)
(***************************************************************************)
\* "PRI * HTTP/2.0\r\n\r\nSM\r\n\r\n"
connectionPreface ==
    <<80, 82, 73, 32, 42, 32, 72, 84, 84, 80, 47, 50, 46, 48,
      13, 10, 13, 10, 83, 77, 13, 10, 13, 10>>

\* ":authority"
authorityKey == <<58, 97, 117, 116, 104, 111, 114, 105, 116, 121>>
\* ":scheme"
schemeKey == <<58, 115, 99, 104, 101, 109, 101>>
\* ":method"
methodKey == <<58, 109, 101, 116, 104, 111, 100>>
\* ":path"
pathKey == <<58, 112, 97, 116, 104>>
\* name standing for the static-table entries 8..61, none of which is a
\* routing pseudo-header
otherKey == <<111, 116, 104, 101, 114>>

\* s[from..] of a Go slice, with 1-based first index `from`
SliceFrom(s, from) == SubSeq(s, from, Len(s))

\* s[from .. from+n-1]
SliceLen(s, from, n) == SubSeq(s, from, from + n - 1)

\* p is a prefix of s
IsPrefix(p, s) == Len(p) <= Len(s) /\ SubSeq(s, 1, Len(p)) = p

\* Flags.Has(v) for a single-bit mask v
Has(flags, v) == (flags \div v) % 2 = 1

(***************************************************************************)
(* HTTP/2 frames as golang.org/x/net/http2 reads them                      *)
(***************************************************************************)
frameHeaderLen == 9
FrameData == 0
FrameHeaders == 1
FrameSettings == 4
FrameContinuation == 9
FlagHeadersEndHeaders == 4
FlagPadded == 8
FlagHeadersPriority == 32
FlagSettingsAck == 1

\* readFrameHeader: 3 bytes length, type, flags, 31 bits stream id
readFrameHeader(buf, pos) ==
    [Length   |-> buf[pos] * 65536 + buf[pos + 1] * 256 + buf[pos + 2],
     Type     |-> buf[pos + 3],
     Flags    |-> buf[pos + 4],
     StreamID |-> (buf[pos + 5] % 128) * 16777216 + buf[pos + 6] * 65536
                  + buf[pos + 7] * 256 + buf[pos + 8]]

\* parseHeadersFrame: the header block fragment of a HEADERS payload, after
\* the pad length, the priority fields and the padding are taken off
parseHeadersFrame(fh, p) ==
    IF fh.StreamID = 0 THEN [err |-> TRUE, frag |-> <<>>]
    ELSE IF Has(fh.Flags, FlagPadded) /\ Len(p) < 1 THEN [err |-> TRUE, frag |-> <<>>]
    ELSE LET padLength == IF Has(fh.Flags, FlagPadded) THEN p[1] ELSE 0
             p1 == IF Has(fh.Flags, FlagPadded) THEN Tail(p) ELSE p
         IN IF Has(fh.Flags, FlagHeadersPriority) /\ Len(p1) < 5
            THEN [err |-> TRUE, frag |-> <<>>]
            ELSE LET p2 == IF Has(fh.Flags, FlagHeadersPriority)
                           THEN SliceFrom(p1, 6) ELSE p1
                 IN IF Len(p2) - padLength < 0
                    THEN [err |-> TRUE, frag |-> <<>>]
                    ELSE [err |-> FALSE, frag |-> SubSeq(p2, 1, Len(p2) - padLength)]

\* parseContinuationFrame
parseContinuationFrame(fh, p) ==
    IF fh.StreamID = 0 THEN [err |-> TRUE, frag |-> <<>>]
    ELSE [err |-> FALSE, frag |-> p]

\* parseDataFrame
parseDataFrame(fh, p) ==
    IF fh.StreamID = 0 THEN [err |-> TRUE, frag |-> <<>>]
    ELSE IF Has(fh.Flags, FlagPadded) /\ Len(p) < 1 THEN [err |-> TRUE, frag |-> <<>>]
    ELSE IF Has(fh.Flags, FlagPadded) /\ p[1] > Len(p) - 1 THEN [err |-> TRUE, frag |-> <<>>]
    ELSE [err |-> FALSE, frag |-> <<>>]

\* parseSettingsFrame
parseSettingsFrame(fh, p) ==
    IF Has(fh.Flags, FlagSettingsAck) /\ fh.Length > 0 THEN [err |-> TRUE, frag |-> <<>>]
    ELSE IF fh.StreamID # 0 THEN [err |-> TRUE, frag |-> <<>>]
    ELSE IF Len(p) % 6 # 0 THEN [err |-> TRUE, frag |-> <<>>]
    ELSE [err |-> FALSE, frag |-> <<>>]

\* typeFrameParser(fh.Type)(...): the frame types the inputs use
typeFrameParser(fh, p) ==
    IF fh.Type = FrameHeaders THEN parseHeadersFrame(fh, p)
    ELSE IF fh.Type = FrameContinuation THEN parseContinuationFrame(fh, p)
    ELSE IF fh.Type = FrameData THEN parseDataFrame(fh, p)
    ELSE IF fh.Type = FrameSettings THEN parseSettingsFrame(fh, p)
    ELSE [err |-> FALSE, frag |-> <<>>]

\* Framer.checkFrameOrder: a HEADERS frame without END_HEADERS must be
\* followed by CONTINUATION frames of the same stream, and a CONTINUATION
\* frame must follow one
checkFrameOrder(fh, lastHeaderStream) ==
    IF lastHeaderStream # 0
    THEN fh.Type = FrameContinuation /\ fh.StreamID = lastHeaderStream
    ELSE fh.Type # FrameContinuation

\* Framer.ReadFrame on the unread part buf[pos..]: the frame, the position
\* after it and the framer's lastHeaderStream, or an error
ReadFrame(buf, pos, lastHeaderStream) ==
    LET bad == [err |-> TRUE, fh |-> [Length |-> 0, Type |-> 0, Flags |-> 0, StreamID |-> 0],
                frag |-> <<>>, next |-> pos, lastHeaderStream |-> lastHeaderStream]
        \* the frame with header fh, parsed to f
        parsed(fh, f) ==
            IF f.err THEN bad
            ELSE IF ~checkFrameOrder(fh, lastHeaderStream) THEN bad
            ELSE [err |-> FALSE, fh |-> fh, frag |-> f.frag,
                  next |-> pos + frameHeaderLen + fh.Length,
                  lastHeaderStream |->
                      IF fh.Type \in {FrameHeaders, FrameContinuation}
                      THEN IF Has(fh.Flags, FlagHeadersEndHeaders)
                           THEN 0 ELSE fh.StreamID
                      ELSE lastHeaderStream]
        \* the frame with header fh
        withHeader(fh) ==
            IF Len(buf) - pos + 1 - frameHeaderLen < fh.Length THEN bad
            ELSE parsed(fh, typeFrameParser(fh, SliceLen(buf, pos + frameHeaderLen, fh.Length)))
    IN IF Len(buf) - pos + 1 < frameHeaderLen THEN bad
       ELSE withHeader(readFrameHeader(buf, pos))

(***************************************************************************)
(* tryPeekHeaders                                                          *)
(***************************************************************************)
\* a Go []byte result: nil, or a slice with its bytes
NilBytes == [isNil |-> TRUE, bytes |-> <<>>]

\* bytes.Buffer.Bytes() of a buffer made by bytes.NewBuffer(nil): nil until
\* a non-empty Write has grown it
BufferBytes(b) == IF b = <<>> THEN NilBytes ELSE [isNil |-> FALSE, bytes |-> b]

\* streamHeaderBufs[id] = b
PutBuf(bufs, id, b) ==
    [s \in DOMAIN bufs \cup {id} |-> IF s = id THEN b ELSE bufs[s]]

\* lines 99 and 108 with the fragment replacing the buffer
appendFragmentReplace(b, frag) == frag

\* lines 99 and 108: buf.Write(f.HeaderBlockFragment())
appendFragment(b, frag) == b \o frag

RECURSIVE peekLoop(_, _, _, _)
\* the for loop of tryPeekHeaders over the copy of peekBuf
peekLoop(buf, pos, lastHeaderStream, streamHeaderBufs) ==
    LET \* lines 100-104 and 109-111: b is the stream's buffer after the Write
        onFragment(r, b) ==
            IF Has(r.fh.Flags, FlagHeadersEndHeaders)
            THEN [buf |-> BufferBytes(b), err |-> FALSE]
            ELSE peekLoop(buf, r.next, r.lastHeaderStream,
                          PutBuf(streamHeaderBufs, r.fh.StreamID, b))
        \* one turn of the loop, r being what ReadFrame returned
        onFrame(r) ==
            IF r.err THEN [buf |-> NilBytes, err |-> FALSE]
            ELSE IF r.fh.Type = FrameHeaders
            THEN onFragment(r, appendFragment(IF r.fh.StreamID \in DOMAIN streamHeaderBufs
                                              THEN streamHeaderBufs[r.fh.StreamID]
                                              ELSE <<>>, r.frag))
            ELSE IF r.fh.Type = FrameContinuation
            THEN IF r.fh.StreamID \notin DOMAIN streamHeaderBufs
                 THEN [buf |-> NilBytes, err |-> TRUE]
                 ELSE onFragment(r, appendFragment(streamHeaderBufs[r.fh.StreamID], r.frag))
            ELSE peekLoop(buf, r.next, r.lastHeaderStream, streamHeaderBufs)
    IN onFrame(ReadFrame(buf, pos, lastHeaderStream))

\* tryPeekHeaders on the current contents of peekBuf
tryPeekHeaders(buf) == peekLoop(buf, 1, 0, << >>)

(***************************************************************************)
(* hpack.Decoder.DecodeFull of golang.org/x/net/http2/hpack                *)
(***************************************************************************)
\* initial and allowed maximum size of the dynamic table: hpack.NewDecoder(4096, nil)
maxDynamicTableSize == 4096
\* number of entries of the static table
staticTableLen == 61

\* staticTable.ents[i-1] (RFC 7541 Appendix A); entries 8..61 are :status and
\* regular fields
staticTable(i) ==
    CASE i = 1 -> [Name |-> authorityKey, Value |-> <<>>]
      [] i = 2 -> [Name |-> methodKey, Value |-> <<71, 69, 84>>]
      [] i = 3 -> [Name |-> methodKey, Value |-> <<80, 79, 83, 84>>]
      [] i = 4 -> [Name |-> pathKey, Value |-> <<47>>]
      [] i = 5 -> [Name |-> pathKey, Value |-> <<47, 105, 110, 100, 101, 120, 46, 104, 116, 109, 108>>]
      [] i = 6 -> [Name |-> schemeKey, Value |-> <<104, 116, 116, 112>>]
      [] i = 7 -> [Name |-> schemeKey, Value |-> <<104, 116, 116, 112, 115>>]
      [] OTHER -> [Name |-> otherKey, Value |-> <<>>]

RECURSIVE readVarIntMore(_, _, _)
\* the continuation bytes of readVarInt: value so far i, shift m
readVarIntMore(p, i, m) ==
    IF p = <<>> THEN [err |-> TRUE, val |-> 0, rest |-> p]
    ELSE LET i2 == i + (p[1] % 128) * (2 ^ m)
         IN IF p[1] < 128 THEN [err |-> FALSE, val |-> i2, rest |-> Tail(p)]
            ELSE IF m + 7 >= 63 THEN [err |-> TRUE, val |-> 0, rest |-> p]
            ELSE readVarIntMore(Tail(p), i2, m + 7)

\* readVarInt(n, p): an integer with an n-bit prefix
readVarInt(n, p) ==
    IF p = <<>> THEN [err |-> TRUE, val |-> 0, rest |-> p]
    ELSE LET i == p[1] % (2 ^ n)
         IN IF i < (2 ^ n) - 1 THEN [err |-> FALSE, val |-> i, rest |-> Tail(p)]
            ELSE readVarIntMore(Tail(p), i, 0)

\* Decoder.readString: a length-prefixed string literal.  Huffman-coded
\* strings (first bit set) are outside the inputs of this model and are
\* reported as a failure.
readString(p) ==
    LET literal(n) ==
            IF n.err \/ p[1] >= 128 \/ Len(n.rest) < n.val
            THEN [err |-> TRUE, val |-> <<>>, rest |-> p]
            ELSE [err |-> FALSE, val |-> SubSeq(n.rest, 1, n.val),
                  rest |-> SliceFrom(n.rest, n.val + 1)]
    IN IF p = <<>> THEN [err |-> TRUE, val |-> <<>>, rest |-> p]
       ELSE literal(readVarInt(7, p))

\* HeaderField.Size
fieldSize(f) == Len(f.Name) + Len(f.Value) + 32

RECURSIVE tableSize(_)
\* dynamicTable.size
tableSize(ents) == IF ents = <<>> THEN 0 ELSE fieldSize(Head(ents)) + tableSize(Tail(ents))

RECURSIVE evict(_, _)
\* dynamicTable.evict: drop the oldest entries while the table is too large
evict(ents, maxSize) ==
    IF ents # <<>> /\ tableSize(ents) > maxSize THEN evict(Tail(ents), maxSize) ELSE ents

\* Decoder.at(i): the static table, then the dynamic table newest first
at(i, ents) ==
    IF i = 0 THEN [ok |-> FALSE, hf |-> staticTable(1)]
    ELSE IF i <= staticTableLen THEN [ok |-> TRUE, hf |-> staticTable(i)]
    ELSE IF i > Len(ents) + staticTableLen THEN [ok |-> FALSE, hf |-> staticTable(1)]
    ELSE [ok |-> TRUE, hf |-> ents[Len(ents) - (i - staticTableLen) + 1]]

\* Decoder.parseFieldLiteral(n, it) on d.buf = p
parseFieldLiteral(n, indexed, p, d) ==
    LET bad == [err |-> TRUE, p |-> p, d |-> d]
        \* d.callEmit(hf), after the field has gone into the dynamic table
        emit(hf, after) ==
            [err |-> FALSE, p |-> after,
             d |-> [ents |-> IF indexed THEN evict(Append(d.ents, hf), d.maxSize)
                             ELSE d.ents,
                    maxSize |-> d.maxSize,
                    firstField |-> FALSE,
                    hf |-> Append(d.hf, hf)]]
        withValue(name, value) ==
            IF value.err THEN bad
            ELSE emit([Name |-> name, Value |-> value.val], value.rest)
        \* the name is the literal lit
        literalName(lit) ==
            IF lit.err THEN bad ELSE withValue(lit.val, readString(lit.rest))
        \* the name is that of the table entry byIdx
        indexedName(byIdx, after) ==
            IF ~byIdx.ok THEN bad ELSE withValue(byIdx.hf.Name, readString(after))
        withIndex(nameIdx) ==
            IF nameIdx.err THEN bad
            ELSE IF nameIdx.val > 0
            THEN indexedName(at(nameIdx.val, d.ents), nameIdx.rest)
            ELSE literalName(readString(nameIdx.rest))
    IN withIndex(readVarInt(n, p))

\* Decoder.parseHeaderFieldRepr: one field representation of d.buf = p
parseHeaderFieldRepr(p, d) ==
    LET bad == [err |-> TRUE, p |-> p, d |-> d]
        \* parseFieldIndexed
        indexedField(entry, after) ==
            IF ~entry.ok THEN bad
            ELSE [err |-> FALSE, p |-> after,
                  d |-> [d EXCEPT !.firstField = FALSE, !.hf = Append(@, entry.hf)]]
        withIndex(idx) ==
            IF idx.err THEN bad ELSE indexedField(at(idx.val, d.ents), idx.rest)
        \* parseDynamicTableSizeUpdate
        sizeUpdate(size) ==
            IF ~d.firstField /\ tableSize(d.ents) > 0 THEN bad
            ELSE IF size.err \/ size.val > maxDynamicTableSize THEN bad
            ELSE [err |-> FALSE, p |-> size.rest,
                  d |-> [d EXCEPT !.firstField = FALSE,
                                  !.maxSize = size.val,
                                  !.ents = evict(@, size.val)]]
    IN IF p[1] >= 128 THEN withIndex(readVarInt(7, p))
       ELSE IF p[1] >= 64 THEN parseFieldLiteral(6, TRUE, p, d)
       ELSE IF p[1] < 32 THEN parseFieldLiteral(4, FALSE, p, d)
       ELSE sizeUpdate(readVarInt(5, p))

RECURSIVE decodeLoop(_, _)
\* Decoder.Write followed by Decoder.Close: every representation must parse
\* and nothing may be left over
decodeLoop(p, d) ==
    LET next(r) == IF r.err THEN [err |-> TRUE, headers |-> <<>>]
                   ELSE decodeLoop(r.p, r.d)
    IN IF p = <<>> THEN [err |-> FALSE, headers |-> d.hf]
       ELSE next(parseHeaderFieldRepr(p, d))

\* hpack.NewDecoder(4096, nil).DecodeFull(headersBuf)
DecodeFull(headersBuf) ==
    decodeLoop(headersBuf, [ents |-> <<>>, maxSize |-> maxDynamicTableSize,
                            firstField |-> TRUE, hf |-> <<>>])

RECURSIVE getValueByKeyFromHeaders(_, _)
\* the value of the first field named key, "" when there is none
getValueByKeyFromHeaders(headers, key) ==
    IF headers = <<>> THEN <<>>
    ELSE IF Head(headers).Name = key THEN Head(headers).Value
    ELSE getValueByKeyFromHeaders(Tail(headers), key)

(***************************************************************************)
(* The caller's input: frame streams written through Write                 *)
(***************************************************************************)
RECURSIVE Concat(_)
\* the concatenation of a sequence of byte strings
Concat(ss) == IF ss = <<>> THEN <<>> ELSE Head(ss) \o Concat(Tail(ss))

\* the wire form of a frame: 9 bytes of frame header, then the payload
EncodeFrame(f) ==
    << Len(f.payload) \div 65536, (Len(f.payload) \div 256) % 256, Len(f.payload) % 256,
       f.type, f.flags,
       (f.stream \div 16777216) % 128, (f.stream \div 65536) % 256,
       (f.stream \div 256) % 256, f.stream % 256 >> \o f.payload

\* a frame the caller sends
Frame(type, flags, stream, payload) ==
    [type |-> type, flags |-> flags, stream |-> stream, payload |-> payload]

\* header blocks: ":authority: a" as a literal with incremental indexing and
\* ":scheme: https" as an indexed field
blockOK == <<65, 1, 97, 135>>
\* ":scheme: https" only
blockNoAuthority == <<135>>
\* ":authority: a" only
blockNoScheme == <<65, 1, 97>>
\* ":authority:" with the empty value of the static table, ":scheme: https"
blockEmptyAuthority == <<129, 135>>
\* index 0 is not a valid indexed field
blockBadHpack == <<128>>

\* the first bytes of a DATA frame that follows the header block
dataStart == <<0, 0>>

\* the frame streams a behaviour may write: lead is written before the frames,
\* tail after them; block is the header block the frames are made from;
\* prefaces tells whether the caller also writes the preface verbatim, at any
\* point between the other Writes
Scripts ==
    << \* 1: one HEADERS frame with the whole block, then the start of DATA
       [lead |-> <<>>,
        prefaces |-> TRUE,
        block |-> blockOK,
        frames |-> << Frame(FrameHeaders, FlagHeadersEndHeaders, 1, blockOK) >>,
        tail |-> dataStart],
       \* 2: the block split over HEADERS and two CONTINUATION frames
       [lead |-> <<>>,
        prefaces |-> FALSE,
        block |-> blockOK,
        frames |-> << Frame(FrameHeaders, 0, 1, <<65>>),
                      Frame(FrameContinuation, 0, 1, <<1, 97>>),
                      Frame(FrameContinuation, FlagHeadersEndHeaders, 1, <<135>>) >>, tail |-> <<>>],
       \* 3: SETTINGS, then a padded HEADERS frame with priority fields
       [lead |-> <<>>,
        prefaces |-> FALSE,
        block |-> blockOK,
        frames |-> << Frame(FrameSettings, 0, 0, <<>>),
                      Frame(FrameHeaders,
                            FlagHeadersEndHeaders + FlagPadded + FlagHeadersPriority, 3,
                            <<1, 0, 0, 0, 0, 16>> \o blockOK \o <<0>>) >>, tail |-> <<>>],
       \* 4: CONTINUATION for a stream with no HEADERS frame before it
       [lead |-> <<>>,
        prefaces |-> FALSE,
        block |-> <<>>,
        frames |-> << Frame(FrameContinuation, FlagHeadersEndHeaders, 1, blockOK) >>, tail |-> <<>>],
       \* 5: no :authority
       [lead |-> <<>>,
        prefaces |-> FALSE,
        block |-> blockNoAuthority,
        frames |-> << Frame(FrameHeaders, FlagHeadersEndHeaders, 1, blockNoAuthority) >>, tail |-> <<>>],
       \* 6: no :scheme
       [lead |-> <<>>,
        prefaces |-> FALSE,
        block |-> blockNoScheme,
        frames |-> << Frame(FrameHeaders, FlagHeadersEndHeaders, 1, blockNoScheme) >>, tail |-> <<>>],
       \* 7: empty :authority
       [lead |-> <<>>,
        prefaces |-> FALSE,
        block |-> blockEmptyAuthority,
        frames |-> << Frame(FrameHeaders, FlagHeadersEndHeaders, 1, blockEmptyAuthority) >>, tail |-> <<>>],
       \* 8: a block that does not decode
       [lead |-> <<>>,
        prefaces |-> FALSE,
        block |-> blockBadHpack,
        frames |-> << Frame(FrameHeaders, FlagHeadersEndHeaders, 1, blockBadHpack) >>,
        tail |-> dataStart],
       \* 9: an empty header block
       [lead |-> <<>>,
        prefaces |-> FALSE,
        block |-> <<>>,
        frames |-> << Frame(FrameHeaders, FlagHeadersEndHeaders, 1, <<>>) >>, tail |-> <<>>],
       \* 10: the caller's own preface in front of scenario 1's HEADERS frame
       [lead |-> connectionPreface,
        prefaces |-> FALSE,
        block |-> blockOK,
        frames |-> << Frame(FrameHeaders, FlagHeadersEndHeaders, 1, blockOK) >>, tail |-> <<>>],
       \* 11: a HEADERS frame on stream 0, then a proper one
       [lead |-> <<>>,
        prefaces |-> FALSE,
        block |-> blockOK,
        frames |-> << Frame(FrameHeaders, FlagHeadersEndHeaders, 0, blockOK),
                      Frame(FrameHeaders, FlagHeadersEndHeaders, 1, blockOK) >>, tail |-> <<>>]
    >>

\* the bytes of a frame sequence
EncodeFrames(frames) == Concat([i \in 1..Len(frames) |-> EncodeFrame(frames[i])])

\* the bytes of scenario i
ScriptBytes(i) == Scripts[i].lead \o EncodeFrames(Scripts[i].frames) \o Scripts[i].tail

(***************************************************************************)
(* The environment: TLS dial, negotiation, upstream Write and Read         *)
(***************************************************************************)
\* what tls.Dial and the handshake can report
DialOutcomes ==
    { [tlsErr |-> TRUE, protocol |-> ""],
      [tlsErr |-> FALSE, protocol |-> "h2"],
      [tlsErr |-> FALSE, protocol |-> "http/1.1"],
      [tlsErr |-> FALSE, protocol |-> ""],
      [tlsErr |-> FALSE, protocol |-> "spdy/3.1"] }

\* what a net.Conn Write of data can return: everything written, or (while
\* canFail) an error after nothing or after the first 24 bytes
WriteOutcomes(data, canFail) ==
    { [n |-> Len(data), err |-> "nil"] }
    \cup { [n |-> k, err |-> "write"] :
             k \in {j \in {0, Len(connectionPreface)} : canFail /\ j < Len(data)} }

\* what a net.Conn Read can return
ReadOutcomes == { [n |-> 1, err |-> "nil"], [n |-> 0, err |-> "EOF"] }

\* the nil net.Conn
NilConn == [kind |-> "nil", dial |-> 0]

\* the *tls.Conn of the k-th dial
tlsConn(k) == [kind |-> "tls", dial |-> k]

\* the bridging adaptor around a connection that speaks HTTP/1.1
newHttp2OverHttp1Conn(c) == [kind |-> "http2OverHttp1", dial |-> c.dial]

\* switch protocol: line 163
dialHTTP2ConnSwap(k, o) ==
    IF o.tlsErr THEN [conn |-> NilConn, protocol |-> "", err |-> "dial"]
    ELSE IF o.protocol = "h2"
    THEN [conn |-> newHttp2OverHttp1Conn(tlsConn(k)), protocol |-> o.protocol, err |-> "nil"]
    ELSE IF o.protocol = "http/1.1"
    THEN [conn |-> tlsConn(k), protocol |-> o.protocol, err |-> "nil"]
    ELSE [conn |-> NilConn, protocol |-> "", err |-> "unexpected protocol"]

\* dialHTTP2Conn as the k-th dial of the connection, with the outcome o of
\* tls.Dial and of the negotiation
dialHTTP2Conn(k, o) ==
    IF o.tlsErr THEN [conn |-> NilConn, protocol |-> "", err |-> "dial"]
    ELSE IF o.protocol = "h2"
    THEN [conn |-> tlsConn(k), protocol |-> o.protocol, err |-> "nil"]
    ELSE IF o.protocol = "http/1.1"
    THEN [conn |-> newHttp2OverHttp1Conn(tlsConn(k)), protocol |-> o.protocol, err |-> "nil"]
    ELSE [conn |-> NilConn, protocol |-> "", err |-> "unexpected protocol"]

(***************************************************************************)
(* State                                                                   *)
(***************************************************************************)
VARIABLES
    peekBuf,        \* c.peekBuf: the bytes buffered before resolution
    h2conn,         \* c.h2conn: the upstream connection, NilConn until resolved
    h2ConnCreated,  \* c.h2ConnCreated: "open" until close() makes it "closed"
    panicked,       \* "no", or why the process has panicked
    dials,          \* one record per call of dialHTTP2Conn, with the bytes its connection was sent
    decodes,        \* number of calls of DecodeFull
    wpc,            \* position of the Write in progress: "idle", "assign" (line 141), "close" (line 142)
    wloc,           \* locals of the Write in progress: the dialed connection and n
    wret,           \* what the last completed Write returned
    lastPeek,       \* what tryPeekHeaders returned in the last Write that called it
    rpc,            \* position of the reader: "idle" or "blocked" on h2ConnCreated (line 257)
    rwaited,        \* the Read in progress was called while h2ConnCreated was open
    readCalls,      \* number of Read calls made
    reads,          \* one record per h2conn.Read made for a Read (line 258)
    closes,         \* number of Close calls made
    script,         \* the scenario of Scripts the caller writes
    rest,           \* the bytes of the scenario not yet written
    prefaceWrites,  \* number of extra Writes of the verbatim preface made
    callerBytes,    \* everything the caller wrote, less verbatim preface Writes made before any other data
    failed,         \* some Write has failed in onHeadersBuf
    upstreamErrs    \* number of Writes of an upstream connection that returned an error

(***************************************************************************)
(* PrefetchServer (package prefetch): state and responses                  *)
(***************************************************************************)
VARIABLES
    ttlHistory,     \* ps.ttlHistory: the document URLs with a live entry
    admitted,       \* per document URL, the calls that passed line 382 since its entry was last dropped
    extractCalls,   \* number of calls of htmlparser.ExtractResourcesInHead
    fetchCalls,     \* number of calls of ps.prefetchResource
    ppc,            \* position of TryPrefetch: "idle" or "extract" (line 388)
    presp,          \* the response of the last TryPrefetch call
    pret,           \* what the last TryPrefetch call returned
    pcalls          \* number of TryPrefetch calls made

prefetchVars == << ttlHistory, admitted, extractCalls, fetchCalls, ppc, presp, pret, pcalls >>

\* http.StatusOK
StatusOK == 200
\* http.StatusNotFound
StatusNotFound == 404

\* "text/html"
textHtml == <<116, 101, 120, 116, 47, 104, 116, 109, 108>>
\* "text/html; charset=utf-8"
textHtmlUtf8 == <<116, 101, 120, 116, 47, 104, 116, 109, 108, 59, 32, 99, 104, 97, 114, 115, 101, 116, 61, 117, 116, 102, 45, 56>>
\* "text/plain"
textPlain == <<116, 101, 120, 116, 47, 112, 108, 97, 105, 110>>

\* the document URLs of the responses
DocUrls == {"https://a/", "https://a/2"}

\* the responses TryPrefetch is called with; contentType is
\* resp.Header.Get("Content-Type"), empty when the header is missing
Responses ==
    [status : {StatusOK, StatusNotFound}, method : {"GET", "POST"},
     contentType : {textHtml, textHtmlUtf8, textPlain, <<>>}, url : DocUrls]

\* strings.Contains(s, substr)
Contains(s, substr) ==
    \E i \in 1..(Len(s) - Len(substr) + 1) : SubSeq(s, i, i + Len(substr) - 1) = substr

\* lines 337-339 without the status test
filterAnyStatus(resp) ==
    /\ resp.method = "GET"
    /\ Contains(resp.contentType, textHtml)

\* filterPrefetchableDocumentResponse
filterPrefetchableDocumentResponse(resp) ==
    /\ resp.status = StatusOK
    /\ resp.method = "GET"
    /\ Contains(resp.contentType, textHtml)

\* common.TTLCache.Get: ok while the key has a live entry
ttlGet(history, key) == key \in history

\* common.TTLCache.Set
ttlSet(history, key) == history \cup {key}

\* what htmlparser.ExtractResourcesInHead can return: an error, or the URLs
\* of up to MaxResources resources
ExtractOutcomes ==
    {[err |-> TRUE, urls |-> 0]} \cup {[err |-> FALSE, urls |-> n] : n \in 0..MaxResources}

\* no TryPrefetch call made yet
NoResponse == [status |-> 0, method |-> "", contentType |-> <<>>, url |-> ""]

\* NewPrefetchServer
NewPrefetchServer ==
    /\ ttlHistory = {}
    /\ admitted = [u \in DocUrls |-> 0]
    /\ extractCalls = 0
    /\ fetchCalls = 0
    /\ ppc = "idle"
    /\ presp = NoResponse
    /\ pret = "none"
    /\ pcalls = 0

vars == << peekBuf, h2conn, h2ConnCreated, panicked, dials, decodes, wpc, wloc, wret,
           lastPeek, rpc, rwaited, readCalls, reads, closes, script, rest, prefaceWrites,
           callerBytes, failed, upstreamErrs, prefetchVars >>

\* the variables of H2AdaptorConn, its callers and its environment
adaptorVars == << peekBuf, h2conn, h2ConnCreated, panicked, dials, decodes, wpc, wloc, wret,
                  lastPeek, rpc, rwaited, readCalls, reads, closes, script, rest,
                  prefaceWrites, callerBytes, failed, upstreamErrs >>

\* the variables of the adaptor connection and of its environment
connVars == << peekBuf, h2conn, h2ConnCreated, panicked, dials, decodes, wpc, wloc,
               lastPeek, failed, upstreamErrs >>

\* the variables of the reader
readVars == << rpc, rwaited, readCalls, reads >>

\* no peek made yet
NoPeek == [buf |-> NilBytes, err |-> FALSE]

\* no Write returned yet
NoRet == [n |-> 0, err |-> "none", len |-> 0, path |-> "none"]

\* NewH2AdaptorConn, and the caller's choice of what to write
Init ==
    /\ peekBuf = <<>>
    /\ h2conn = NilConn
    /\ h2ConnCreated = "open"
    /\ panicked = "no"
    /\ dials = <<>>
    /\ decodes = 0
    /\ wpc = "idle"
    /\ wloc = [conn |-> NilConn, n |-> 0]
    /\ wret = NoRet
    /\ lastPeek = NoPeek
    /\ rpc = "idle"
    /\ rwaited = FALSE
    /\ readCalls = 0
    /\ reads = <<>>
    /\ closes = 0
    /\ script \in 1..Len(Scripts)
    /\ rest = ScriptBytes(script)
    /\ prefaceWrites = 0
    /\ callerBytes = <<>>
    /\ failed = FALSE
    /\ upstreamErrs = 0
    /\ NewPrefetchServer

(***************************************************************************)
(* Write                                                                   *)
(***************************************************************************)
\* line 176: the Write is the caller's preface
isPreface(buf) == buf = connectionPreface

\* line 180 with the nil test dropped
needsResolutionAlways(conn) == TRUE

\* line 180: c.h2conn == nil
needsResolution(conn) == conn = NilConn

\* line 125 with "and" for "or"
routingFailsBoth(authority, scheme) == authority = <<>> /\ scheme = <<>>

\* line 125: authority == "" || scheme == ""
routingFails(authority, scheme) == authority = <<>> \/ scheme = <<>>

\* lines 134-136 without the preface
flushBytesNoPreface(pb) == pb

\* lines 134-136: the preface, then the whole of peekBuf
flushBytes(pb) == connectionPreface \o pb

\* line 181 with the Write replacing the buffered bytes
peekBufWriteReplace(pb, buf) == buf

\* line 181: c.peekBuf.Write(buf)
peekBufWrite(pb, buf) == pb \o buf

\* lines 188 and 192 with the count of the appended bytes returned
errCountLen(n) == n

\* lines 188 and 192: return 0, err
errCount(n) == 0

\* a Write of len bytes returns (n, err) on the path "preface" (line 177),
\* "buffered" (lines 181-195) or "forwarded" (line 197), and leaves the
\* connection as it is
Return(n, err, len, path) ==
    /\ wret' = [n |-> n, err |-> err, len |-> len, path |-> path]
    /\ UNCHANGED << h2conn, h2ConnCreated, panicked, wpc, wloc >>

\* onHeadersBuf up to the flush (lines 116-139), called from Write with n
\* bytes appended; on success the Write goes on at line 141
onHeadersBuf(headersBuf, pb, n) ==
    LET \* lines 134-143: the flush of data to the dialed connection
        flush(rec, data, w) ==
            /\ dials' = Append(dials, [rec EXCEPT !.written = SubSeq(data, 1, w.n)])
            /\ IF w.err # "nil"
               THEN /\ Return(errCount(n), w.err, n, "buffered")
                    /\ failed' = TRUE
                    /\ upstreamErrs' = upstreamErrs + 1
               ELSE /\ wpc' = "assign"
                    /\ wloc' = [conn |-> rec.conn, n |-> n]
                    /\ UNCHANGED << wret, h2conn, h2ConnCreated, panicked,
                                    failed, upstreamErrs >>
        \* lines 129-132: rec is the dial just made
        dialed(rec, data) ==
            IF rec.err # "nil"
            THEN /\ dials' = Append(dials, rec)
                 /\ Return(errCount(n), rec.err, n, "buffered")
                 /\ failed' = TRUE
                 /\ UNCHANGED upstreamErrs
            ELSE \E w \in WriteOutcomes(data, upstreamErrs < MaxWriteErrs) :
                    flush(rec, data, w)
        dial(authority, o, d) ==
            dialed([block |-> headersBuf, host |-> authority, outcome |-> o,
                    conn |-> d.conn, err |-> d.err, written |-> <<>>], flushBytes(pb))
        \* lines 123-132
        route(authority, scheme) ==
            IF routingFails(authority, scheme)
            THEN /\ Return(errCount(n), "authority or scheme not found in headers", n, "buffered")
                 /\ failed' = TRUE
                 /\ UNCHANGED << dials, upstreamErrs >>
            ELSE /\ Len(dials) < MaxDials
                 /\ \E o \in DialOutcomes :
                      dial(authority, o, dialHTTP2Conn(Len(dials) + 1, o))
        \* lines 118-124
        decoded(dec) ==
            IF dec.err
            THEN /\ Return(errCount(n), "decode", n, "buffered")
                 /\ failed' = TRUE
                 /\ UNCHANGED << dials, upstreamErrs >>
            ELSE route(getValueByKeyFromHeaders(dec.headers, authorityKey),
                       getValueByKeyFromHeaders(dec.headers, schemeKey))
    IN /\ decodes' = decodes + 1
       /\ decoded(DecodeFull(headersBuf))

\* Write(buf) from its call to its return, or to line 141 when the flush
\* has succeeded
WriteCall(buf) ==
    LET \* lines 181-195: hb is what tryPeekHeaders returned for pb
        peeked(pb, hb) ==
            /\ peekBuf' = pb
            /\ lastPeek' = hb
            /\ IF hb.err
               THEN /\ Return(errCount(Len(buf)), "continuation frame received before headers frame",
                              Len(buf), "buffered")
                    /\ UNCHANGED << dials, decodes, failed, upstreamErrs >>
               ELSE IF ~hb.buf.isNil
               THEN onHeadersBuf(hb.buf.bytes, pb, Len(buf))
               ELSE /\ Return(Len(buf), "nil", Len(buf), "buffered")
                    /\ UNCHANGED << dials, decodes, failed, upstreamErrs >>
    IN IF isPreface(buf)
       THEN /\ Return(Len(buf), "nil", Len(buf), "preface")
            /\ UNCHANGED << peekBuf, dials, decodes, lastPeek, failed, upstreamErrs >>
       ELSE IF needsResolution(h2conn)
       THEN peeked(peekBufWrite(peekBuf, buf), tryPeekHeaders(peekBufWrite(peekBuf, buf)))
       ELSE \E w \in WriteOutcomes(buf, upstreamErrs < MaxWriteErrs) :
               /\ dials' = [dials EXCEPT ![h2conn.dial].written = @ \o SubSeq(buf, 1, w.n)]
               /\ Return(w.n, w.err, Len(buf), "forwarded")
               /\ upstreamErrs' = upstreamErrs + (IF w.err # "nil" THEN 1 ELSE 0)
               /\ UNCHANGED << peekBuf, decodes, lastPeek, failed >>

\* the caller writes the next k bytes of its frame stream
Write ==
    /\ panicked = "no" /\ wpc = "idle"
    /\ \E k \in {j \in 1..Len(rest) : j <= MaxChunk \/ j = Len(rest)} :
         /\ WriteCall(SubSeq(rest, 1, k))
         /\ rest' = SliceFrom(rest, k + 1)
         /\ callerBytes' = IF isPreface(SubSeq(rest, 1, k)) /\ callerBytes = <<>>
                           THEN callerBytes ELSE callerBytes \o SubSeq(rest, 1, k)
    /\ UNCHANGED << readVars, closes, script, prefaceWrites, prefetchVars >>

\* the caller writes the connection preface verbatim, at any point
WritePreface ==
    /\ panicked = "no" /\ wpc = "idle"
    /\ Scripts[script].prefaces
    /\ prefaceWrites < MaxPrefaceWrites
    /\ prefaceWrites' = prefaceWrites + 1
    /\ WriteCall(connectionPreface)
    /\ callerBytes' = IF callerBytes = <<>>
                      THEN callerBytes ELSE callerBytes \o connectionPreface
    /\ UNCHANGED << readVars, closes, script, rest, prefetchVars >>

\* line 141 left out
assignUpstreamForgotten(old, new) == old

\* line 141: the value of c.h2conn after c.h2conn = h2conn
assignUpstream(old, new) == new

\* line 141: c.h2conn = h2conn
WriteAssign ==
    /\ panicked = "no" /\ wpc = "assign"
    /\ h2conn' = assignUpstream(h2conn, wloc.conn)
    /\ wpc' = "close"
    /\ UNCHANGED << peekBuf, h2ConnCreated, panicked, dials, decodes, wloc, wret, lastPeek,
                    failed, upstreamErrs, readVars, closes, script, rest, prefaceWrites,
                    callerBytes,
                    prefetchVars >>

\* lines 142-143 and 195: close(c.h2ConnCreated), then Write returns n
WriteClose ==
    /\ panicked = "no" /\ wpc = "close"
    /\ IF h2ConnCreated = "closed"
       THEN /\ panicked' = "close of closed channel"
            /\ UNCHANGED << h2ConnCreated, wpc, wret >>
       ELSE /\ h2ConnCreated' = "closed"
            /\ wpc' = "idle"
            /\ wret' = [n |-> wloc.n, err |-> "nil", len |-> wloc.n, path |-> "buffered"]
            /\ UNCHANGED panicked
    /\ UNCHANGED << peekBuf, h2conn, dials, decodes, wloc, lastPeek, failed, upstreamErrs,
                    readVars, closes, script, rest, prefaceWrites, callerBytes, prefetchVars >>

(***************************************************************************)
(* Read and Close                                                          *)
(***************************************************************************)
\* line 257 without the receive
readReadyAlways(ch) == TRUE

\* line 257 with a receive that never returns
readReadyNever(ch) == FALSE

\* line 257: <-c.h2ConnCreated returns once the channel is closed
readReady(ch) == ch = "closed"

\* line 258: Read returns what c.h2conn.Read(buf) returned
readResult(r) == r

\* Read is called and reaches line 257
ReadCall ==
    /\ panicked = "no" /\ rpc = "idle"
    /\ readCalls < MaxReads
    /\ readCalls' = readCalls + 1
    /\ rpc' = "blocked"
    /\ rwaited' = (h2ConnCreated = "open")
    /\ UNCHANGED << connVars, wret, reads, closes, script, rest, prefaceWrites, callerBytes, prefetchVars >>

\* line 258: the receive has returned; c.h2conn.Read(buf) and its result
ReadReturn ==
    /\ panicked = "no" /\ rpc = "blocked"
    /\ readReady(h2ConnCreated)
    /\ IF h2conn = NilConn
       THEN /\ panicked' = "nil pointer dereference"
            /\ UNCHANGED << rpc, rwaited, reads >>
       ELSE /\ \E r \in ReadOutcomes :
                 reads' = Append(reads,
                     [conn |-> h2conn, upstream |-> r, ret |-> readResult(r),
                      waited |-> rwaited,
                      flushed |-> IsPrefix(flushBytes(peekBuf), dials[h2conn.dial].written)])
            /\ rpc' = "idle"
            /\ rwaited' = FALSE
            /\ UNCHANGED panicked
    /\ UNCHANGED << peekBuf, h2conn, h2ConnCreated, dials, decodes, wpc, wloc, wret,
                    lastPeek, failed, upstreamErrs, readCalls, closes, script, rest,
                    prefaceWrites, callerBytes, prefetchVars >>

\* line 248 with a Close that fires the readiness signal
CloseReleasing ==
    /\ panicked = "no"
    /\ closes < MaxCloses
    /\ closes' = closes + 1
    /\ h2ConnCreated' = "closed"
    /\ UNCHANGED << peekBuf, h2conn, panicked, dials, decodes, wpc, wloc, lastPeek,
                    failed, upstreamErrs, wret, readVars, script, rest, prefaceWrites,
                    callerBytes, prefetchVars >>

\* line 248: Close returns nil
Close ==
    /\ panicked = "no"
    /\ closes < MaxCloses
    /\ closes' = closes + 1
    /\ UNCHANGED << connVars, wret, readVars, script, rest, prefaceWrites, callerBytes, prefetchVars >>

Next == Write \/ WritePreface \/ WriteAssign \/ WriteClose \/ ReadCall \/ ReadReturn \/ Close

Spec == Init /\ [][Next]_vars

\* the goroutine in Read is scheduled once its receive from the closed
\* channel can return
FairSpec == Spec /\ WF_vars(ReadReturn)

(***************************************************************************)
(* PrefetchServer.TryPrefetch                                              *)
(***************************************************************************)
\* lines 373-386: the filter, then the look-up in the history and the entry
\* made in it
TryPrefetchCall ==
    /\ ppc = "idle"
    /\ pcalls < MaxPrefetchCalls
    /\ pcalls' = pcalls + 1
    /\ \E resp \in Responses :
         /\ presp' = resp
         /\ IF ~filterPrefetchableDocumentResponse(resp)
            THEN /\ pret' = "nil"
                 /\ UNCHANGED << ttlHistory, admitted, ppc >>
            ELSE IF ttlGet(ttlHistory, resp.url)
            THEN /\ pret' = "ErrThrottled"
                 /\ UNCHANGED << ttlHistory, admitted, ppc >>
            ELSE /\ ttlHistory' = ttlSet(ttlHistory, resp.url)
                 /\ admitted' = [admitted EXCEPT ![resp.url] = @ + 1]
                 /\ ppc' = "extract"
                 /\ pret' = "none"
    /\ UNCHANGED << extractCalls, fetchCalls, adaptorVars >>

\* lines 388-397: the resources are extracted and each one is prefetched
TryPrefetchExtract ==
    /\ ppc = "extract"
    /\ ppc' = "idle"
    /\ extractCalls' = extractCalls + 1
    /\ \E o \in ExtractOutcomes :
         IF o.err
         THEN /\ pret' = "extract error"
              /\ UNCHANGED fetchCalls
         ELSE /\ pret' = "nil"
              /\ fetchCalls' = fetchCalls + o.urls
    /\ UNCHANGED << ttlHistory, admitted, presp, pcalls, adaptorVars >>

\* the time to live of the entry of a document URL runs out
Expire ==
    /\ \E u \in ttlHistory :
         /\ ttlHistory' = ttlHistory \ {u}
         /\ admitted' = [admitted EXCEPT ![u] = 0]
    /\ UNCHANGED << extractCalls, fetchCalls, ppc, presp, pret, pcalls, adaptorVars >>

PrefetchNext == TryPrefetchCall \/ TryPrefetchExtract \/ Expire

\* a PrefetchServer, next to an adaptor connection that is not used
PrefetchInit == Init /\ script = 1

PrefetchSpec == PrefetchInit /\ [][PrefetchNext]_vars

(***************************************************************************)
(* Properties                                                              *)
(***************************************************************************)
\* the connection is Live: the upstream is assigned, the signal has fired
\* and the resolving Write has returned
Live == h2conn # NilConn /\ h2ConnCreated = "closed" /\ wpc = "idle"

\* the bytes the upstream connection in use was sent
upstreamBytes == dials[h2conn.dial].written

\* the dials whose connection was sent the whole connection preface
prefaceSends == {i \in DOMAIN dials : IsPrefix(connectionPreface, dials[i].written)}

\* the scenarios that carry one header block and nothing before it
HeaderBlockScripts == {i \in DOMAIN Scripts : Scripts[i].lead = <<>>
                           /\ \A j \in DOMAIN Scripts[i].frames :
                                 /\ Scripts[i].frames[j].stream # 0
                                    \/ Scripts[i].frames[j].type = FrameSettings
                                 /\ Scripts[i].frames[1].type # FrameContinuation}

\* the number of bytes after which the header block of scenario i is complete
completeAt(i) == Len(EncodeFrames(Scripts[i].frames))

\* the block decodes, and some field of it is named key and has a non-empty
\* value
HasNonEmpty(block, key) ==
    LET found(dec) ==
            /\ ~dec.err
            /\ \E j \in DOMAIN dec.headers :
                  dec.headers[j].Name = key /\ dec.headers[j].Value # <<>>
    IN found(DecodeFull(block))

\* the block decodes to fields with a non-empty :authority and a non-empty
\* :scheme
Routable(block) ==
    LET found(dec) ==
            /\ ~dec.err
            /\ \E j \in DOMAIN dec.headers :
                  dec.headers[j].Name = authorityKey /\ dec.headers[j].Value # <<>>
            /\ \E j \in DOMAIN dec.headers :
                  dec.headers[j].Name = schemeKey /\ dec.headers[j].Value # <<>>
    IN found(DecodeFull(block))

\* C1: once the connection is Live and no upstream Write has failed, the
\* upstream has received the preface followed by everything the caller wrote,
\* in call order (a verbatim preface Write made before any other data being
\* the only thing absorbed): nothing dropped, duplicated or reordered.
C1_OrderPreserved ==
    (Live /\ upstreamErrs = 0) => upstreamBytes = connectionPreface \o callerBytes

\* C2: the connection preface is sent upstream at most once by the adaptor,
\* and exactly once when the connection is Live.
C2_PrefaceOnce ==
    /\ Cardinality(prefaceSends) <= 1
    /\ Live => Cardinality(prefaceSends) = 1

\* C3: the upstream reference is absent until a dial and its flush have
\* succeeded, and once assigned it keeps its value in every later step of
\* Write, Read and Close.
C3_UpstreamImmutable ==
    [][ /\ (h2conn # NilConn => h2conn' = h2conn)
        /\ (h2conn' # NilConn =>
              /\ h2conn'.dial \in DOMAIN dials'
              /\ dials'[h2conn'.dial].conn = h2conn'
              /\ IsPrefix(flushBytes(peekBuf'), dials'[h2conn'.dial].written)) ]_vars

\* a Live connection that has forwarded a Write, served a Read and was closed
C3_Witness ==
    /\ Live /\ closes > 0 /\ reads # <<>>
    /\ wret.path = "forwarded"
    /\ Len(dials) > 1

\* C4: the readiness signal is never fired twice (no close of the closed
\* channel), and whenever it has fired the upstream reference is assigned;
\* also for the Writes that follow a failed resolution.
C4_SignalOnce ==
    /\ panicked # "close of closed channel"
    /\ h2ConnCreated = "closed" => h2conn # NilConn

\* the signal has fired on a connection whose first resolution failed, and
\* Writes have been made since
C4_Witness ==
    /\ h2ConnCreated = "closed" /\ failed
    /\ wret.path \in {"forwarded", "preface"}

\* C5: every upstream Read made for a Read finds the upstream reference
\* assigned and the flush of the buffered bytes done; while the signal has
\* not fired no Read has returned, and no Read dereferences a nil upstream.
C5_ReadAfterLive ==
    /\ panicked # "nil pointer dereference"
    /\ \A i \in DOMAIN reads : reads[i].conn # NilConn /\ reads[i].flushed
    /\ h2ConnCreated = "open" => reads = <<>>
    /\ h2conn = NilConn => reads = <<>>

\* a Read that was called has returned from the upstream's Read
C5_Witness == reads # <<>> /\ reads[1].conn = h2conn /\ rest = <<>>

\* a Read is suspended while the connection is still buffering
C5_WitnessBlocked == rpc = "blocked" /\ h2conn = NilConn /\ peekBuf # <<>>

\* C6: the Write that supplies a whole CONTINUATION frame for a stream with
\* no HEADERS frame before it returns an error.
C6_ContinuationRejected ==
    ( /\ Scripts[script].lead = <<>>
      /\ Scripts[script].frames[1].type = FrameContinuation
      /\ wret.path = "buffered"
      /\ Len(peekBuf) >= Len(EncodeFrame(Scripts[script].frames[1])) )
    => wret.err \notin {"nil", "none"}

\* C7: every dial was made for a header block whose decoded fields have a
\* non-empty :authority and a non-empty :scheme.
C7_DialNeedsBoth ==
    /\ \A block \in {dials[i].block : i \in DOMAIN dials} : Routable(block)
    /\ \A i \in DOMAIN dials : dials[i].host # <<>>

\* a complete header block without a usable :authority or :scheme was
\* written, the Write failed and nothing was dialed
C7_Witness ==
    /\ ~lastPeek.buf.isNil
    /\ ~HasNonEmpty(lastPeek.buf.bytes, authorityKey) \/ ~HasNonEmpty(lastPeek.buf.bytes, schemeKey)
    /\ ~DecodeFull(lastPeek.buf.bytes).err
    /\ wret.err = "authority or scheme not found in headers"
    /\ dials = <<>>

\* C8: a dial that negotiated h2 yields the TLS connection itself, one that
\* negotiated http/1.1 yields the bridging adaptor around it, and any other
\* outcome yields an error and never the upstream of the connection.
C8_BranchSelection ==
    /\ \A i \in DOMAIN dials :
         LET d == dials[i]
         IN IF ~d.outcome.tlsErr /\ d.outcome.protocol = "h2"
            THEN d.err = "nil" /\ d.conn = tlsConn(i)
            ELSE IF ~d.outcome.tlsErr /\ d.outcome.protocol = "http/1.1"
            THEN d.err = "nil" /\ d.conn = newHttp2OverHttp1Conn(tlsConn(i))
            ELSE d.err # "nil" /\ d.conn = NilConn /\ d.written = <<>> /\ h2conn.dial # i
    /\ h2conn # NilConn => h2conn = dials[h2conn.dial].conn

\* the connection is Live over the bridging adaptor after a dial that
\* negotiated something else
C8_Witness ==
    /\ Live /\ h2conn.kind = "http2OverHttp1"
    /\ \E i \in DOMAIN dials : ~dials[i].outcome.tlsErr /\ dials[i].err # "nil"

\* C9: for a frame stream that carries one header block, written in any
\* pieces, the peek after each Write reports "not enough data" while the
\* buffered prefix ends before the end of the last header frame, and returns
\* the concatenated fragments of the block once it is complete (an empty
\* block comes back as the nil slice).
C9_PeekBuffering ==
    script \in HeaderBlockScripts =>
        IF Len(peekBuf) < completeAt(script)
        THEN lastPeek = NoPeek
        ELSE /\ ~lastPeek.err
             /\ lastPeek.buf.bytes = Scripts[script].block
             /\ Scripts[script].block # <<>> => ~lastPeek.buf.isNil

\* the block split over three frames has been completed by a Write of one byte
C9_Witness ==
    /\ script = 2 /\ Len(peekBuf) = completeAt(2)
    /\ lastPeek.buf.bytes = blockOK
    /\ wret.len = 1 /\ wret.path = "buffered"

\* C10: after a Write has failed in resolution nothing goes on: the decoder
\* and the dialer are called at most once per connection and the connection
\* never gets an upstream.
C10_NoRetry ==
    /\ decodes <= 1
    /\ Len(dials) <= 1
    /\ failed => h2conn = NilConn /\ wpc = "idle"

\* the step is a Write call of the caller: a piece of its frame stream or the
\* verbatim preface
WriteStep == rest' # rest \/ prefaceWrites' # prefaceWrites

\* the bytes of the Write call that the step makes
writtenBytes ==
    IF rest' # rest THEN SubSeq(rest, 1, Len(rest) - Len(rest')) ELSE connectionPreface

\* C11: every Write issued while the connection is Live, whatever its bytes,
\* goes to the upstream's Write as it is and returns what the upstream
\* returned: the upstream has received the first n bytes of it, n being the
\* count returned, and the pending buffer is left alone.
C11_LiveForwarded ==
    [][ (Live /\ WriteStep) =>
          /\ wret'.path = "forwarded"
          /\ wret'.len = Len(writtenBytes)
          /\ peekBuf' = peekBuf
          /\ dials'[h2conn.dial].written =
                dials[h2conn.dial].written \o SubSeq(writtenBytes, 1, wret'.n)
          /\ wret'.err = "nil" => wret'.n = Len(writtenBytes) ]_vars

\* C12: a Write during Buffering whose peek returns "not enough data" returns
\* (len(buf), nil) and only appends its bytes to the pending buffer: the
\* bytes buffered before stay as they were, nothing is decoded or dialed, the
\* upstream reference stays nil and the signal stays unfired.
C12_SoftFailAppends ==
    [][ (WriteStep /\ h2conn = NilConn /\ wret'.path = "buffered" /\ lastPeek' = NoPeek) =>
          /\ wret'.n = Len(writtenBytes) /\ wret'.err = "nil"
          /\ peekBuf' = peekBuf \o writtenBytes
          /\ dials' = dials /\ decodes' = decodes
          /\ h2conn' = NilConn /\ h2ConnCreated' = "open" /\ wpc' = "idle" ]_vars

\* a Write has added its bytes to bytes buffered before, with no header block
\* complete yet
C12_Witness ==
    /\ h2conn = NilConn /\ lastPeek = NoPeek /\ dials = <<>>
    /\ wret.path = "buffered" /\ wret.err = "nil" /\ wret.n = wret.len
    /\ Len(peekBuf) > wret.len /\ rest # <<>>

\* the errors a failed resolution returns: decode, routing, dial, negotiation
\* and flush
ResolutionErrors ==
    {"decode", "authority or scheme not found in headers", "dial",
     "unexpected protocol", "write"}

\* C13: a Write that buffers its bytes, finds a complete header block and
\* returns without the flush having succeeded returns (0, err) with one of the resolution errors,
\* and leaves the upstream reference nil and the signal unfired; and while
\* the signal is unfired a suspended Read stays suspended.
C13_FailedResolution ==
    [][ /\ (WriteStep /\ h2conn = NilConn /\ wret'.path = "buffered"
                   /\ ~lastPeek'.buf.isNil /\ wpc' = "idle") =>
              /\ wret'.err \in ResolutionErrors /\ wret'.n = 0
              /\ wret'.len = Len(writtenBytes)
              /\ h2conn' = NilConn /\ h2ConnCreated' = "open" /\ failed'
        /\ (rpc = "blocked" /\ h2ConnCreated' = "open") =>
              rpc' = "blocked" /\ reads' = reads ]_vars

\* the flush to a dialed upstream has failed while a Read is suspended, and
\* the caller has nothing more to write
C13_Witness ==
    /\ failed /\ wret.err = "write" /\ wret.n = 0 /\ wret.len > 0
    /\ h2conn = NilConn /\ h2ConnCreated = "open"
    /\ rpc = "blocked" /\ rest = <<>>

\* C14: when the caller's frame stream starts with the opening sequence,
\* written in pieces or in one Write with the frames after it, and no dial or
\* upstream Write has failed, then once everything is written the connection
\* is Live and the upstream has received the opening sequence once, followed
\* by the caller's frames.
C14_ChunkedPreface ==
    ( /\ Scripts[script].lead = connectionPreface
      /\ rest = <<>> /\ wpc = "idle"
      /\ upstreamErrs = 0 /\ \A i \in DOMAIN dials : dials[i].err = "nil" )
    => /\ Live
       /\ upstreamBytes = ScriptBytes(script)

\* the first frame of scenario i is one that its frame parser rejects
InvalidFirstFrame(i) ==
    LET f == Scripts[i].frames[1]
    IN /\ Scripts[i].lead = <<>>
       /\ typeFrameParser(readFrameHeader(EncodeFrame(f), 1), f.payload).err

\* C15: the Write that supplies the last byte of a structurally invalid frame
\* during Buffering returns an error.
C15_InvalidFrameRejected ==
    ( /\ InvalidFirstFrame(script)
      /\ wret.path = "buffered"
      /\ Len(peekBuf) >= Len(EncodeFrame(Scripts[script].frames[1]))
      /\ Len(peekBuf) - wret.len < Len(EncodeFrame(Scripts[script].frames[1])) )
    => wret.err \notin {"nil", "none"}

\* C16: after a Write on the buffering path that has the whole header block
\* in the pending buffer, for a block of any length, the connection is Live
\* or the Write has returned an error; the error is the routing error when
\* the block decodes without a non-empty :authority and :scheme.
C16_CompleteBlockResolves ==
    ( /\ script \in HeaderBlockScripts
      /\ Len(peekBuf) >= completeAt(script)
      /\ wpc = "idle" /\ wret.path = "buffered" )
    => /\ Live \/ wret.err \notin {"nil", "none"}
       /\ (~DecodeFull(Scripts[script].block).err /\ ~Routable(Scripts[script].block))
             => wret.err = "authority or scheme not found in headers"

\* C17: once the connection is Live a suspended Read does not stay suspended,
\* whether it was called before or after the signal fired; and every Read
\* that has returned was served by the upstream connection's Read, whose
\* result it returned unchanged.
C17_ReadsReleased ==
    /\ [](\A i \in DOMAIN reads :
             reads[i].ret = reads[i].upstream /\ reads[i].conn = h2conn)
    /\ (Live /\ rpc = "blocked") ~> (rpc = "idle" /\ reads # <<>>)

\* a Read that was suspended before the signal fired has returned the
\* upstream's result on the Live connection
C17_Witness ==
    /\ Live /\ rpc = "idle"
    /\ \E i \in DOMAIN reads : reads[i].waited /\ reads[i].ret = reads[i].upstream

\* C18: in every Live state the upstream was sent the opening sequence and
\* the whole pending buffer in one Write, and the pending buffer has been
\* discarded: it is empty.
C18_BufferDiscarded ==
    Live => /\ IsPrefix(flushBytes(peekBuf), upstreamBytes)
            /\ peekBuf = <<>>

\* C19: Close changes nothing in any state: the pending buffer, the upstream
\* reference, the readiness signal, the upstream connections and what they
\* were sent, the Write in progress and the reader are as before, so a
\* suspended Read stays suspended and the next Write finds the connection as
\* the last one left it; and Close can be called in every state.
C19_CloseNoOp ==
    /\ [][ closes' # closes =>
              UNCHANGED << peekBuf, h2conn, h2ConnCreated, panicked, dials, decodes,
                           wpc, wloc, wret, lastPeek, failed, upstreamErrs,
                           rpc, rwaited, readCalls, reads, rest, callerBytes >> ]_vars
    /\ []((panicked = "no" /\ closes < MaxCloses) => ENABLED Close)

\* Close was called while a Read is suspended on a connection that is still
\* buffering bytes
C19_Witness ==
    /\ closes > 0
    /\ rpc = "blocked" /\ h2ConnCreated = "open" /\ h2conn = NilConn
    /\ peekBuf # <<>> /\ wret.path = "buffered"

\* the response is one of a document to prefetch: status 200, method GET and
\* an HTML content type
Prefetchable(resp) ==
    /\ resp.status = StatusOK
    /\ resp.method = "GET"
    /\ resp.contentType \in {textHtml, textHtmlUtf8}

\* C20: a TryPrefetch call for a response that is not prefetchable returns
\* nil and leaves the history alone; one for a document URL still in the
\* history returns ErrThrottled; neither extracts or fetches anything.  A
\* call for a prefetchable document not in the history enters its URL before
\* anything is extracted or fetched.  Hence at most one call per document
\* URL gets to extract and fetch while the entry of the URL is live.
C20_PrefetchThrottled ==
    /\ [](\A u \in DocUrls : admitted[u] <= 1 /\ (admitted[u] = 1 => u \in ttlHistory))
    /\ [][IF pcalls' # pcalls
          THEN IF ~Prefetchable(presp')
               THEN /\ pret' = "nil"
                    /\ ppc' = "idle"
                    /\ UNCHANGED << ttlHistory, extractCalls, fetchCalls >>
               ELSE IF presp'.url \in ttlHistory
               THEN /\ pret' = "ErrThrottled"
                    /\ ppc' = "idle"
                    /\ UNCHANGED << ttlHistory, extractCalls, fetchCalls >>
               ELSE /\ presp'.url \in ttlHistory'
                    /\ ppc' = "extract"
                    /\ UNCHANGED << extractCalls, fetchCalls >>
          ELSE (extractCalls' # extractCalls \/ fetchCalls' # fetchCalls)
                  => ppc = "extract"]_vars

\* a call for a document whose resources were fetched and whose entry is
\* still live has been throttled
C20_Witness ==
    /\ pret = "ErrThrottled" /\ fetchCalls > 0 /\ extractCalls = 1
    /\ presp.url \in ttlHistory /\ admitted[presp.url] = 1

====
